---------------------------- MODULE Spec2Model ----------------------------
(***************************************************************************)
(* A model of Simple-Excel-Merge: merge_excel_files.py (merge every        *)
(* spreadsheet of a directory into one frame, written as .xlsx and .csv)   *)
(* and split_excel_sheets.py (one workbook per sheet of a workbook).       *)
(*                                                                         *)
(* Paths and file names are strings, so that endswith, startswith, sorted, *)
(* os.path.join, dirname, basename and splitext are computed on the        *)
(* characters.  A spreadsheet file is the sequence of its rows, the first  *)
(* row being the header row; every cell is a string.  A data cell of an    *)
(* input file is labelled "<path>:<row>:<column>", so that a row that is   *)
(* moved, dropped, duplicated or cut to other columns is told apart.       *)
(***************************************************************************)
EXTENDS Integers, Sequences, FiniteSets, TLC

(***************************************************************************)
(* Bounds of the model.                                                    *)
(***************************************************************************)
MaxRows == 2        \* data rows of an input file or sheet: 0..MaxRows
MaxRuns == 2        \* merge runs over the same directory (SpecRerun)
MaxSheets == 2      \* sheets of the workbook given to split: 1..MaxSheets

VARIABLES
    fs,                  \* the filesystem: path -> entry (a directory or a file)
    now,                 \* the clock, in minutes (datetime.now() to '%Y%m%d_%H%M')
    argv,                \* sys.argv of the running process
    pc,                  \* where the running process is
    exit_code,           \* -1 while it runs, then the code given to sys.exit
    stdout,              \* what it printed: a sequence of [k, msg, arg]
    files_to_merge_dir,  \* merge: module global (line 68)
    target_dir_path,     \* merge: module global (line 69)
    excel_files_sorted,  \* merge_excel_data_in_path: local (line 100)
    i,                   \* merge_excel_data_in_path: loop index (line 102)
    headers,             \* merge_excel_data_in_path: local (line 89)
    frames,              \* merge_excel_data_in_path: local (line 88)
    dataframe,           \* main: local (line 137)
    timestamp,           \* main: local (line 139) / split: local (line 72)
    excel_file,          \* split: the workbook's path (line 96)
    wb,                  \* split: the loaded workbook, its sheets in order (line 69)
    folder_name,         \* split: the output folder (line 73)
    sheet_index,         \* split: how many sheets the loop of line 77 has done
    runs,                \* history: merge processes started so far
    first_frame,         \* history: the frame of the first run that returned one
    produced             \* history: the paths written by merge runs

mergeVars == <<argv, pc, exit_code, stdout, files_to_merge_dir, target_dir_path,
               excel_files_sorted, i, headers, frames, dataframe, timestamp>>
histVars == <<runs, first_frame, produced>>
splitVars == <<excel_file, wb, folder_name, sheet_index>>
vars == <<fs, now, mergeVars, histVars, splitVars>>

(***************************************************************************)
(* Strings.                                                                *)
(***************************************************************************)
\* The characters of the model's paths, in code point order.
Alphabet == "-./0123456789:ABCDEFGHIJKLMNOPQRSTUVWXYZ_abcdefghijklmnopqrstuvwxyz"

\* ord(c), up to the offset of the first character of the alphabet
Ord == [c \in {SubSeq(Alphabet, k, k) : k \in 1..Len(Alphabet)} |->
            CHOOSE k \in 1..Len(Alphabet) : SubSeq(Alphabet, k, k) = c]

Min(a, b) == IF a < b THEN a ELSE b

\* str.startswith(prefix)
startswith(s, prefix) ==
    /\ Len(prefix) <= Len(s)
    /\ SubSeq(s, 1, Len(prefix)) = prefix

\* str.endswith(suffix)
endswith(s, suffix) ==
    /\ Len(suffix) <= Len(s)
    /\ SubSeq(s, Len(s) - Len(suffix) + 1, Len(s)) = suffix

RECURSIVE LessFrom(_, _, _)
\* s < t, the characters before position k being equal
LessFrom(s, t, k) ==
    IF k > Len(s) THEN k <= Len(t)
    ELSE IF k > Len(t) THEN FALSE
    ELSE LET a == SubSeq(s, k, k)
             b == SubSeq(t, k, k)
         IN  IF a = b THEN LessFrom(s, t, k + 1) ELSE Ord[a] < Ord[b]

\* s < t for Python strings: the first differing character decides, a proper
\* prefix is smaller.
StrLess(s, t) == LessFrom(s, t, 1)

\* The position of the last c in s, 0 when there is none.
LastIndexOf(s, c) ==
    LET at == {k \in 1..Len(s) : SubSeq(s, k, k) = c}
    IN  IF at = {} THEN 0 ELSE CHOOSE k \in at : \A j \in at : j <= k

\* os.path.join(a, b), b relative
join(a, b) == a \o "/" \o b

\* os.path.dirname(p), p absolute and not the root
dirname(p) == SubSeq(p, 1, LastIndexOf(p, "/") - 1)

\* os.path.basename(p)
basename(p) == SubSeq(p, LastIndexOf(p, "/") + 1, Len(p))

\* os.path.splitext(p)[0]: the extension starts at the last dot of the base
\* name, a leading dot of the base name not counted.
splitext0(p) ==
    LET dot == LastIndexOf(p, ".")
        sep == LastIndexOf(p, "/")
    IN  IF dot > sep + 1 THEN SubSeq(p, 1, dot - 1) ELSE p

(***************************************************************************)
(* sorted(): the strings of a set in ascending order.                      *)
(***************************************************************************)
Least(S) == CHOOSE x \in S : \A y \in S : y = x \/ StrLess(x, y)

RECURSIVE SortedOf(_)
SortedOf(S) ==
    IF S = {} THEN <<>>
    ELSE LET m == Least(S) IN <<m>> \o SortedOf(S \ {m})

Range(s) == {s[k] : k \in 1..Len(s)}

\* sorted(list)
sortedNoSort(list) == list

sorted(list) == SortedOf(Range(list))

\* Every order in which a directory listing may give the names of S.
RECURSIVE Orderings(_)
Orderings(S) ==
    IF S = {} THEN {<<>>}
    ELSE UNION {{<<x>> \o p : p \in Orderings(S \ {x})} : x \in S}

(***************************************************************************)
(* The filesystem.                                                         *)
(***************************************************************************)
Dir == [kind |-> "dir", ok |-> FALSE, sheets |-> <<>>]

\* A sheet of a workbook: a worksheet with its rows, or a chart sheet.
Sheet(title, rows) == [title |-> title, rows |-> rows, chart |-> FALSE]

Chartsheet(title) == [title |-> title, rows |-> <<>>, chart |-> TRUE]

\* A workbook file with the given sheets.
Book(sheets) == [kind |-> "file", ok |-> TRUE, sheets |-> sheets]

\* A workbook file with one sheet.
Workbook(title, rows) == Book(<<Sheet(title, rows)>>)

\* A file no spreadsheet reader can read: corrupt, or not a workbook at all.
NotAWorkbook == [kind |-> "file", ok |-> FALSE, sheets |-> <<>>]

Exists(fsys, p) == p \in DOMAIN fsys

\* fsys with path p holding entry e
PutFile(fsys, p, e) == [q \in (DOMAIN fsys) \cup {p} |-> IF q = p THEN e ELSE fsys[q]]

\* fsys without path p
Without(fsys, p) == [q \in (DOMAIN fsys) \ {p} |-> fsys[q]]

\* The files (not the directories) directly inside directory d: the `files`
\* of os.walk's triple for root d.
FilesOf(fsys, d) ==
    {basename(p) : p \in {q \in DOMAIN fsys : dirname(q) = d /\ fsys[q].kind = "file"}}

\* os.makedirs(p, exist_ok=True), when it succeeds
makedirs(fsys, p) == IF Exists(fsys, p) THEN fsys ELSE PutFile(fsys, p, Dir)

(***************************************************************************)
(* Frames (pandas.DataFrame) and the reader.                               *)
(***************************************************************************)
NoneFrame == [isNone |-> TRUE, columns |-> <<>>, data |-> <<>>]

Frame(columns, data) == [isNone |-> FALSE, columns |-> columns, data |-> data]

NaN == "NaN"

\* pandas names the columns after the header row, a repeated name getting
\* the suffix .1, .2, ...
MangleDupes(hdr) ==
    [k \in 1..Len(hdr) |->
        LET c == Cardinality({j \in 1..(k - 1) : hdr[j] = hdr[k]})
        IN  IF c = 0 THEN hdr[k] ELSE hdr[k] \o "." \o ToString(c)]

\* Whether pandas.read_excel(path) returns (it raises otherwise).
CanRead(fsys, p) == Exists(fsys, p) /\ fsys[p].kind = "file" /\ fsys[p].ok

\* pandas.read_excel(path): of the first sheet, the first row is the header,
\* the others the data.  An empty sheet gives a frame without columns and rows.
read_excel(fsys, p) ==
    LET rows == fsys[p].sheets[1].rows
    IN  IF rows = <<>> THEN Frame(<<>>, <<>>)
        ELSE Frame(MangleDupes(Head(rows)), Tail(rows))

\* frame[cols]: the columns at the positions ks, in that order
Project(row, ks) == [n \in 1..Len(ks) |-> row[ks[n]]]

RECURSIVE Positions(_, _, _)
\* The positions k >= from of the columns whose name is in the set named
Positions(columns, named, from) ==
    IF from > Len(columns) THEN <<>>
    ELSE (IF columns[from] \in named THEN <<from>> ELSE <<>>)
         \o Positions(columns, named, from + 1)

\* pandas.read_excel(path, usecols=names): the columns whose name is listed,
\* in the file's order; without any column there is no row either.
read_excel_all_columns(fsys, p, names) == read_excel(fsys, p)

read_excel_usecols(fsys, p, names) ==
    LET df == read_excel(fsys, p)
        ks == Positions(df.columns, Range(names), 1)
    IN  IF ks = <<>> THEN Frame(<<>>, <<>>)
        ELSE Frame(Project(df.columns, ks),
                   [r \in 1..Len(df.data) |-> Project(df.data[r], ks)])

RECURSIVE UnionColumns(_, _)
\* The columns of the frames from..., each name once, in order of appearance.
UnionColumns(fr, seen) ==
    IF fr = <<>> THEN seen
    ELSE LET new == SelectSeq(Head(fr).columns, LAMBDA c : c \notin Range(seen))
         IN  UnionColumns(Tail(fr), seen \o new)

IndexOf(seq, x) == CHOOSE k \in 1..Len(seq) : seq[k] = x

\* A row of frame df laid out on the columns cols, NaN where df has no such column.
Reindex(df, row, cols) ==
    [n \in 1..Len(cols) |->
        IF cols[n] \in Range(df.columns) THEN row[IndexOf(df.columns, cols[n])] ELSE NaN]

RECURSIVE StackRows(_, _)
StackRows(fr, cols) ==
    IF fr = <<>> THEN <<>>
    ELSE [r \in 1..Len(Head(fr).data) |-> Reindex(Head(fr), Head(fr).data[r], cols)]
         \o StackRows(Tail(fr), cols)

\* pandas.concat(frames, axis=0, ignore_index=True)
concat(fr) ==
    LET cols == UnionColumns(fr, <<>>)
    IN  Frame(cols, StackRows(fr, cols))

\* DataFrame.to_excel(path, index=False): the header row, then the rows.
to_excel(df) == Workbook("Sheet1", <<df.columns>> \o df.data)

\* DataFrame.to_csv(path, index=False): the same rows as text, which no
\* spreadsheet reader reads.
to_csv(df) == [kind |-> "file", ok |-> FALSE, sheets |-> <<Sheet("", <<df.columns>> \o df.data)>>]

\* datetime.datetime.now().strftime('%Y%m%d_%H%M'), for the clock's minute t
strftime(t) == "20240101_000" \o ToString(t)

(***************************************************************************)
(* merge_excel_files.py                                                    *)
(***************************************************************************)
this_file_path == "/s/merge_excel_files.py"

this_file_dir == dirname(this_file_path)

\* The directory of spreadsheets the runs are about.
DataDir == "/d"

\* The command lines: no argument, the script's own directory, the directory.
Argvs == {<<this_file_path>>, <<this_file_path, this_file_dir>>, <<this_file_path, DataDir>>}

Line(k, msg, arg) == [k |-> k, msg |-> msg, arg |-> arg]

\* error(...): the (EE) prefix
error(msg, arg) == Line("EE", msg, arg)

\* info(...): the (--) prefix
info(msg, arg) == Line("--", msg, arg)

\* print(...)
print(msg, arg) == Line("", msg, arg)

NoHeaders == [isNone |-> TRUE, cols |-> <<>>]

\* The roots whose files the collection loop looks at: os.walk's first
\* triple only, the loop breaking after it.
Walked(fsys, folder_path) == {folder_path}

\* The test of line 96 on a file name.
EligibleAnyPrefix(file_name) ==
    endswith(file_name, ".xlsx") \/ endswith(file_name, ".xls")

Eligible(file_name) ==
    /\ endswith(file_name, ".xlsx") \/ endswith(file_name, ".xls")
    /\ ~startswith(file_name, "merged_")

\* The paths the collection loop appends to excel_files.
ExcelFiles(fsys, folder_path) ==
    UNION {{join(root, f) : f \in {g \in FilesOf(fsys, root) : Eligible(g)}}
           : root \in Walked(fsys, folder_path)}

\* list[:n]
Slice(list, n) == SubSeq(list, 1, Min(n, Len(list)))

\* The test of line 116: current_headers[:len(headers)] == headers
HeadersMatchAnyOrder(current_headers, hdrs) == Range(hdrs) \subseteq Range(current_headers)

HeadersMatch(current_headers, hdrs) == Slice(current_headers, Len(hdrs)) = hdrs

\* One iteration of the loop of line 102 on file_with_path, at index idx, from
\* the locals acc = [headers, frames, out]; out is what the iteration prints.
\* Any exception of the try block is caught at line 122 and printed.
LoopBody(fsys, acc, file_with_path, idx) ==
    LET failed(why) ==
            [acc EXCEPT !.out = @ \o <<error("Error while reading", file_with_path),
                                       print(why, file_with_path)>>]
        appended(h, df, lines) ==
            [headers |-> h,
             frames |-> Append(acc.frames, df),
             out |-> acc.out \o lines
                     \o <<print("Appending data from file", basename(file_with_path))>>]
    IN  IF idx = 0
        THEN \* lines 107-111
             IF ~CanRead(fsys, file_with_path) THEN failed("read error")
             ELSE LET initial_dataframe == read_excel(fsys, file_with_path)
                  IN  appended([isNone |-> FALSE, cols |-> initial_dataframe.columns],
                               initial_dataframe,
                               <<print("Grabbing headers from first file", ""),
                                 print("Wait for all merge operations to finish", "")>>)
        ELSE \* lines 114-120
             IF ~CanRead(fsys, file_with_path) THEN failed("read error")
             ELSE LET current_headers == read_excel(fsys, file_with_path).columns
                  IN  IF acc.headers.isNone
                      THEN \* len(headers) with headers still None
                           failed("TypeError: object of type 'NoneType' has no len()")
                      ELSE IF ~HeadersMatch(current_headers, acc.headers.cols)
                      THEN failed("ValueError: Headers do not match")
                      ELSE appended(acc.headers,
                                    read_excel_usecols(fsys, file_with_path, acc.headers.cols),
                                    <<>>)

RECURSIVE LoopFrom(_, _, _, _)
\* The loop of line 102 from index idx to its end.
LoopFrom(fsys, files, idx, acc) ==
    IF idx >= Len(files) THEN acc
    ELSE LoopFrom(fsys, files, idx + 1, LoopBody(fsys, acc, files[idx + 1], idx))

\* What merge_excel_data_in_path returns for the frames it gathered.
ReturnedFirstFrame(fr) == IF fr # <<>> THEN Head(fr) ELSE NoneFrame

ReturnedNoneWithoutRows(fr) == IF fr # <<>> /\ concat(fr).data # <<>> THEN concat(fr) ELSE NoneFrame

Returned(fr) == IF fr # <<>> THEN concat(fr) ELSE NoneFrame

\* merge_excel_data_in_path(folder_path) as a function of the filesystem.
merge_excel_data_in_path(fsys, folder_path) ==
    Returned(LoopFrom(fsys, sorted(SortedOf(ExcelFiles(fsys, folder_path))), 0,
                      [headers |-> NoHeaders, frames |-> <<>>, out |-> <<>>]).frames)

\* safe_shutdown(exit_code)
safe_shutdown_always_zero(code) ==
    /\ exit_code' = 0
    /\ pc' = "exit"

safe_shutdown(code) ==
    /\ exit_code' = code
    /\ pc' = "exit"

target_XLSX_file_path == join(target_dir_path, "merged_excel_data_" \o strftime(timestamp) \o ".xlsx")

target_CSV_file_path == join(target_dir_path, "merged_excel_data_" \o strftime(timestamp) \o ".csv")

\* Lines 61-69: the argument count, then the module's path globals.  The
\* command line is an input of the first run; a rerun repeats it.
CheckArgs ==
    /\ pc = "args"
    /\ argv' \in (IF argv = <<>> THEN Argvs ELSE {argv})
    /\ IF Len(argv') < 2
       THEN /\ stdout' = Append(stdout, error("Error: No arguments given", ""))
            /\ safe_shutdown(1)
            /\ UNCHANGED <<files_to_merge_dir, target_dir_path>>
       ELSE /\ files_to_merge_dir' = argv'[2]
            /\ target_dir_path' = join(argv'[2], "merged_excel_files")
            /\ pc' = "makedirs"
            /\ UNCHANGED <<stdout, exit_code>>
    /\ UNCHANGED <<fs, now, excel_files_sorted, i, headers, frames, dataframe,
                   timestamp, histVars>>
    /\ UNCHANGED splitVars

\* Lines 78-82: os.makedirs succeeds, or raises OSError.
MakeDirs ==
    /\ pc = "makedirs"
    /\ \E raises \in BOOLEAN :
        IF raises
        THEN /\ stdout' = Append(stdout, print("Error creating directory", target_dir_path))
             /\ safe_shutdown(1)
             /\ UNCHANGED fs
        ELSE /\ fs' = makedirs(fs, target_dir_path)
             /\ pc' = "main"
             /\ UNCHANGED <<stdout, exit_code>>
    /\ UNCHANGED <<now, argv, files_to_merge_dir, target_dir_path, excel_files_sorted, i,
                   headers, frames, dataframe, timestamp, histVars>>
    /\ UNCHANGED splitVars

\* Lines 132-137 and 88-100: main's check of the directory, then the call of
\* merge_excel_data_in_path up to its loop.
MainEnter ==
    /\ pc = "main"
    /\ IF files_to_merge_dir = this_file_dir
       THEN /\ stdout' = stdout \o <<print("Looking for Excel files", ""),
                                     error("Error: Path same as script file path", "")>>
            /\ safe_shutdown(1)
            /\ UNCHANGED <<excel_files_sorted, i, headers, frames>>
       ELSE /\ stdout' = Append(stdout, print("Looking for Excel files", ""))
            /\ \E excel_files \in Orderings(ExcelFiles(fs, files_to_merge_dir)) :
                   excel_files_sorted' = sorted(excel_files)
            /\ i' = 0
            /\ headers' = NoHeaders
            /\ frames' = <<>>
            /\ pc' = "loop"
            /\ UNCHANGED exit_code
    /\ UNCHANGED <<fs, now, argv, files_to_merge_dir, target_dir_path, dataframe,
                   timestamp, histVars>>
    /\ UNCHANGED splitVars

\* Lines 102-124: one iteration of the loop.
ProcessFile ==
    /\ pc = "loop"
    /\ i < Len(excel_files_sorted)
    /\ LET acc == LoopBody(fs, [headers |-> headers, frames |-> frames, out |-> stdout],
                           excel_files_sorted[i + 1], i)
       IN  /\ headers' = acc.headers
           /\ frames' = acc.frames
           /\ stdout' = acc.out
    /\ i' = i + 1
    /\ UNCHANGED <<fs, now, argv, pc, exit_code, files_to_merge_dir, target_dir_path,
                   excel_files_sorted, dataframe, timestamp, histVars>>
    /\ UNCHANGED splitVars

\* Lines 126-129, 138-139 and 151-153: the function returns; main takes the
\* timestamp, or reports that nothing was read and the process ends (line 158).
ReturnFrame ==
    /\ pc = "loop"
    /\ i = Len(excel_files_sorted)
    /\ dataframe' = Returned(frames)
    /\ first_frame' = IF first_frame.set THEN first_frame
                      ELSE [set |-> TRUE, frame |-> dataframe']
    /\ IF ~dataframe'.isNone
       THEN /\ timestamp' = now
            /\ pc' = "to_excel"
            /\ UNCHANGED <<stdout, exit_code>>
       ELSE /\ stdout' = Append(stdout, info("No Excel files were found or successfully read.", ""))
            /\ safe_shutdown(0)
            /\ UNCHANGED timestamp
    /\ UNCHANGED <<fs, now, argv, files_to_merge_dir, target_dir_path, excel_files_sorted,
                   i, headers, frames, runs, produced>>
    /\ UNCHANGED splitVars

\* Lines 141-142.
WriteXlsx ==
    /\ pc = "to_excel"
    /\ fs' = PutFile(fs, target_XLSX_file_path, to_excel(dataframe))
    /\ produced' = produced \cup {target_XLSX_file_path}
    /\ pc' = "to_csv"
    /\ UNCHANGED <<now, argv, exit_code, stdout, files_to_merge_dir, target_dir_path,
                   excel_files_sorted, i, headers, frames, dataframe, timestamp,
                   runs, first_frame>>
    /\ UNCHANGED splitVars

\* Lines 144-149 and 158.
WriteCsv ==
    /\ pc = "to_csv"
    /\ fs' = PutFile(fs, target_CSV_file_path, to_csv(dataframe))
    /\ produced' = produced \cup {target_CSV_file_path}
    /\ stdout' = stdout \o <<print("Merge operation COMPLETE", ""),
                             print("Merged XLSX file name", target_XLSX_file_path),
                             print("Merged CSV file name", target_CSV_file_path)>>
    /\ safe_shutdown(0)
    /\ UNCHANGED <<now, argv, files_to_merge_dir, target_dir_path, excel_files_sorted,
                   i, headers, frames, dataframe, timestamp, runs, first_frame>>
    /\ UNCHANGED splitVars

(***************************************************************************)
(* The directories a merge run is given.                                   *)
(***************************************************************************)
InputNames == {"a.xlsx", "b.xls", "c.xlsx"}

\* The header rows of the input files.
MergeHeaders ==
    {<<"id">>, <<"id", "name">>, <<"name", "id">>, <<"id", "name", "email">>, <<"id", "id">>}

RerunHeaders == {<<"id">>, <<"id", "name">>}

Cell(p, r, c) == p \o ":" \o ToString(r) \o ":" \o ToString(c)

\* The workbook at path p with header row hdr and n data rows.
InputFile(p, hdr, n) ==
    Workbook("Sheet1",
             <<hdr>> \o [r \in 1..n |-> [c \in 1..Len(hdr) |-> Cell(p, r, c)]])

\* What a name of InputNames may be: absent, unreadable, or a workbook.
Options(H) ==
    {<<"absent", <<>>, 0>>, <<"unreadable", <<>>, 0>>}
    \cup {<<"workbook", h, n>> : h \in H, n \in 0..MaxRows}

\* Other things in the directory: an earlier output left beside the inputs,
\* a text file, a directory named like a workbook, a workbook one level down.
Clutter ==
    [p \in {"/d/merged_old.xlsx", "/d/notes.txt", "/d/old.xlsx", "/d/sub", "/d/sub/z.xlsx"} |->
        CASE p = "/d/merged_old.xlsx" -> InputFile(p, <<"id", "name">>, 1)
          [] p = "/d/notes.txt" -> NotAWorkbook
          [] p = "/d/old.xlsx" -> Dir
          [] p = "/d/sub" -> Dir
          [] p = "/d/sub/z.xlsx" -> InputFile(p, <<"id", "name">>, 1)]

InputFs(opt, cluttered) ==
    LET present == {join(DataDir, n) : n \in {m \in InputNames : opt[m][1] # "absent"}}
        fixed == {this_file_dir, this_file_path, DataDir}
        extra == IF cluttered THEN DOMAIN Clutter ELSE {}
    IN  [p \in fixed \cup present \cup extra |->
            IF p \in {this_file_dir, DataDir} THEN Dir
            ELSE IF p = this_file_path THEN NotAWorkbook
            ELSE IF p \in extra THEN Clutter[p]
            ELSE LET o == opt[basename(p)]
                 IN  IF o[1] = "unreadable" THEN NotAWorkbook
                     ELSE InputFile(p, o[2], o[3])]

\* A merge process about to start.
Fresh ==
    /\ argv = <<>>
    /\ exit_code = -1
    /\ stdout = <<>>
    /\ files_to_merge_dir = ""
    /\ target_dir_path = ""
    /\ excel_files_sorted = <<>>
    /\ i = 0
    /\ headers = NoHeaders
    /\ frames = <<>>
    /\ dataframe = NoneFrame
    /\ timestamp = 0

InitWith(H) ==
    /\ \E opt \in [InputNames -> Options(H)], cluttered \in BOOLEAN :
           fs = InputFs(opt, cluttered)
    /\ now = 0
    /\ pc = "args"
    /\ Fresh
    /\ runs = 1
    /\ first_frame = [set |-> FALSE, frame |-> NoneFrame]
    /\ produced = {}
    /\ excel_file = ""
    /\ wb = <<>>
    /\ folder_name = ""
    /\ sheet_index = 0

Init == InitWith(MergeHeaders)

Next ==
    \/ CheckArgs
    \/ MakeDirs
    \/ MainEnter
    \/ ProcessFile
    \/ ReturnFrame
    \/ WriteXlsx
    \/ WriteCsv

Spec == Init /\ [][Next]_vars

\* The same command run again, in the same minute or a later one.
Rerun ==
    /\ pc = "exit"
    /\ runs < MaxRuns
    /\ runs' = runs + 1
    /\ now' \in {now, now + 1}
    /\ pc' = "args"
    /\ exit_code' = -1
    /\ stdout' = <<>>
    /\ files_to_merge_dir' = ""
    /\ target_dir_path' = ""
    /\ excel_files_sorted' = <<>>
    /\ i' = 0
    /\ headers' = NoHeaders
    /\ frames' = <<>>
    /\ dataframe' = NoneFrame
    /\ timestamp' = 0
    /\ UNCHANGED <<fs, argv, first_frame, produced>>
    /\ UNCHANGED splitVars

InitRerun == InitWith(RerunHeaders)

NextRerun == Next \/ Rerun

SpecRerun == InitRerun /\ [][NextRerun]_vars

(***************************************************************************)
(* split_excel_sheets.py                                                   *)
(***************************************************************************)
split_file_path == "/s/split_excel_sheets.py"

\* The workbook the split runs are about.
BookPath == "/w/book.xlsx"

\* The command lines: no argument, the workbook, a path that is no file, one
\* argument too many.
SplitArgvs ==
    {<<split_file_path>>, <<split_file_path, BookPath>>,
     <<split_file_path, "/w/none.xlsx">>, <<split_file_path, BookPath, "-v">>}

\* os.path.isfile(p)
isfile(fsys, p) == Exists(fsys, p) /\ fsys[p].kind = "file"

\* wb.sheetnames
sheetnames(book) == [k \in 1..Len(book) |-> book[k].title]

\* wb[sheet_name]
active_sheet(book, sheet_name) == book[1]

sheet_of(book, sheet_name) == book[CHOOSE k \in 1..Len(book) : book[k].title = sheet_name]

RECURSIVE AppendRows(_, _)
\* new_ws.append(row) for every row, in order
AppendRows(ws, rows) ==
    IF rows = <<>> THEN ws
    ELSE AppendRows([ws EXCEPT !.rows = Append(@, Head(rows))], Tail(rows))

\* Lines 79-84: a new workbook, its one sheet titled sheet_name, holding the
\* values of the rows of sheet.
new_wb(sheet_name, sheet) ==
    LET new_ws == [Sheet("Sheet", <<>>) EXCEPT !.title = sheet_name]
    IN  Book(<<AppendRows(new_ws, sheet.rows)>>)

\* Line 87.
new_file(folder, sheet_name) == join(folder, sheet_name \o ".xlsx")

\* An exception nothing catches: the traceback, exit code 1.
Uncaught(what) ==
    /\ stdout' = Append(stdout, print("Traceback", what))
    /\ exit_code' = 1
    /\ pc' = "split_exit"

mergeLocals == <<files_to_merge_dir, target_dir_path, excel_files_sorted, i, headers,
                 frames, dataframe, histVars>>

\* Lines 45-47 and 92-99: the checks of the command line.
SplitCheckArgs ==
    /\ pc = "split_args"
    /\ argv' \in SplitArgvs
    /\ IF Len(argv') < 2
       THEN /\ stdout' = Append(stdout, error("Error: No arguments given", ""))
            /\ exit_code' = 1
            /\ pc' = "split_exit"
            /\ UNCHANGED excel_file
       ELSE IF Len(argv') # 2
       THEN /\ stdout' = Append(stdout, print("Usage", basename(split_file_path)))
            /\ exit_code' = 1
            /\ pc' = "split_exit"
            /\ UNCHANGED excel_file
       ELSE IF ~isfile(fs, argv'[2])
       THEN /\ stdout' = Append(stdout, print("Error: File not found", argv'[2]))
            /\ exit_code' = 1
            /\ pc' = "split_exit"
            /\ UNCHANGED excel_file
       ELSE /\ excel_file' = argv'[2]
            /\ pc' = "split_load"
            /\ UNCHANGED <<stdout, exit_code>>
    /\ UNCHANGED <<fs, now, timestamp, wb, folder_name, sheet_index, mergeLocals>>

\* Lines 69-74: the workbook is loaded and the timestamped folder made; a
\* file that is no workbook, or a folder that cannot be made, raises.
SplitLoad ==
    /\ pc = "split_load"
    /\ IF ~fs[excel_file].ok
       THEN /\ Uncaught("load_workbook")
            /\ UNCHANGED <<fs, wb, timestamp, folder_name>>
       ELSE /\ wb' = fs[excel_file].sheets
            /\ timestamp' = now
            /\ folder_name' = splitext0(excel_file) \o "_" \o strftime(now)
            /\ \E raises \in BOOLEAN :
                  IF raises
                  THEN /\ Uncaught("makedirs")
                       /\ UNCHANGED fs
                  ELSE /\ fs' = makedirs(fs, folder_name')
                       /\ pc' = "split_loop"
                       /\ UNCHANGED <<stdout, exit_code>>
    /\ UNCHANGED <<now, argv, excel_file, sheet_index, mergeLocals>>

\* Lines 77-89: one sheet; a chart sheet has no iter_rows, which raises.
SplitSheet ==
    /\ pc = "split_loop"
    /\ sheet_index < Len(sheetnames(wb))
    /\ LET sheet_name == sheetnames(wb)[sheet_index + 1]
           sheet == sheet_of(wb, sheet_name)
       IN  IF sheet.chart
           THEN /\ Uncaught("iter_rows")
                /\ UNCHANGED <<fs, sheet_index>>
           ELSE /\ fs' = PutFile(fs, new_file(folder_name, sheet_name), new_wb(sheet_name, sheet))
                /\ stdout' = Append(stdout, print("Saved", new_file(folder_name, sheet_name)))
                /\ sheet_index' = sheet_index + 1
                /\ UNCHANGED <<pc, exit_code>>
    /\ UNCHANGED <<now, argv, timestamp, excel_file, wb, folder_name, mergeLocals>>

\* The loop of line 77 is over and the script ends.
SplitEnd ==
    /\ pc = "split_loop"
    /\ sheet_index = Len(sheetnames(wb))
    /\ exit_code' = 0
    /\ pc' = "split_exit"
    /\ UNCHANGED <<fs, now, argv, stdout, timestamp, splitVars, mergeLocals>>

\* The merge script is started on the folder the split made.
MergeSplitOutput ==
    /\ pc = "split_exit"
    /\ folder_name # ""
    /\ Exists(fs, folder_name)
    /\ argv' = <<this_file_path, folder_name>>
    /\ pc' = "args"
    /\ exit_code' = -1
    /\ stdout' = <<>>
    /\ UNCHANGED <<fs, now, timestamp, splitVars, mergeLocals>>

SheetNames == {"Jan", "Feb", "merged_Q1"}

SplitHeaders == {<<"id">>, <<"id", "name">>}

\* The sheets a sheet name may stand for: empty, a chart sheet, or a header
\* row and n data rows.
SheetsNamed(t) ==
    {Sheet(t, <<>>), Chartsheet(t)}
    \cup {Sheet(t, <<h>> \o [r \in 1..n |-> [c \in 1..Len(h) |-> Cell(t, r, c)]])
          : h \in SplitHeaders, n \in 0..MaxRows}

\* The workbooks of 1..MaxSheets sheets, no two of the same name.
Books ==
    UNION {{b \in [1..n -> UNION {SheetsNamed(t) : t \in SheetNames}] :
               \A j, k \in 1..n : j # k => b[j].title # b[k].title}
           : n \in 1..MaxSheets}

SplitFs(entry) ==
    [p \in {"/s", this_file_path, split_file_path, "/w", BookPath} |->
        IF p \in {"/s", "/w"} THEN Dir
        ELSE IF p = BookPath THEN entry
        ELSE NotAWorkbook]

InitSplit ==
    /\ \E entry \in {NotAWorkbook} \cup {Book(b) : b \in Books} : fs = SplitFs(entry)
    /\ now = 0
    /\ pc = "split_args"
    /\ Fresh
    /\ runs = 1
    /\ first_frame = [set |-> FALSE, frame |-> NoneFrame]
    /\ produced = {}
    /\ excel_file = ""
    /\ wb = <<>>
    /\ folder_name = ""
    /\ sheet_index = 0

NextSplit ==
    \/ SplitCheckArgs
    \/ SplitLoad
    \/ SplitSheet
    \/ SplitEnd
    \/ MergeSplitOutput
    \/ Next

SpecSplit == InitSplit /\ [][NextSplit]_vars

(***************************************************************************)
(* Properties.  They are told from the filesystem and from what the run    *)
(* printed, not from the definitions above.                                *)
(***************************************************************************)
\* The run entered merge_excel_data_in_path on DataDir and has ended.
MergeEnded ==
    /\ pc = "exit"
    /\ files_to_merge_dir = DataDir
    /\ stdout # <<>>
    /\ stdout[1].msg = "Looking for Excel files"

\* An eligible spreadsheet file of DataDir: an immediate child, a file, named
\* *.xlsx or *.xls and not merged_*.
IsInput(p) ==
    /\ dirname(p) = DataDir
    /\ fs[p].kind = "file"
    /\ endswith(basename(p), ".xlsx") \/ endswith(basename(p), ".xls")
    /\ ~startswith(basename(p), "merged_")

InputSet == {p \in DOMAIN fs : IsInput(p)}

\* The eligible files in sorted order.
Inputs == SortedOf(InputSet)

HeaderRow(p) == Head(fs[p].sheets[1].rows)

DataRows(p) == Tail(fs[p].sheets[1].rows)

RECURSIVE SumRows(_)
SumRows(ps) == IF ps = <<>> THEN 0 ELSE Len(DataRows(Head(ps))) + SumRows(Tail(ps))

\* The run printed a line of kind k with message msg about arg.
Printed(k, msg, arg) ==
    \E n \in 1..Len(stdout) : stdout[n].k = k /\ stdout[n].msg = msg /\ stdout[n].arg = arg

\* The frame holds a cell that came from file p.
HasCellOf(df, p) ==
    \E r \in 1..Len(df.data) : \E c \in 1..Len(df.data[r]) : startswith(df.data[r][c], p \o ":")

OutDir == join(DataDir, "merged_excel_files")

WrittenXlsx == {p \in DOMAIN fs : dirname(p) = OutDir /\ endswith(p, ".xlsx")}

WrittenCsv == {p \in DOMAIN fs : dirname(p) = OutDir /\ endswith(p, ".csv")}

\* C1: when every eligible file is readable and all have the same header row,
\* the merged frame has as many rows as the files have data rows together, and
\* the columns of the first file in sorted order.
C1_RowCountAndColumns ==
    (/\ MergeEnded
     /\ InputSet # {}
     /\ \A p \in InputSet : fs[p].ok
     /\ \A p, q \in InputSet : HeaderRow(p) = HeaderRow(q))
    => LET ins == Inputs
       IN  /\ ~dataframe.isNone
           /\ Len(dataframe.data) = SumRows(ins)
           /\ dataframe.columns = read_excel(fs, ins[1]).columns

C1_Witness ==
    /\ MergeEnded
    /\ Cardinality(InputSet) = 3
    /\ \A p \in InputSet : fs[p].ok /\ HeaderRow(p) = <<"id", "name">>
    /\ Len(DataRows(Inputs[1])) = 2
    /\ Len(DataRows(Inputs[2])) = 1
    /\ Len(dataframe.data) >= 4

\* The leading K columns of file p differ from the canonical headers, the
\* header row of the first file (K its length); fewer than K columns differ.
Mismatch(first, p) ==
    LET canon == HeaderRow(first)
        mine == HeaderRow(p)
    IN  \/ Len(mine) < Len(canon)
        \/ \E k \in 1..Len(canon) : mine[k] # canon[k]

\* C2: a readable file after the first whose leading columns differ from the
\* canonical headers gives no row to the merged frame, has an error printed
\* for it, and every file after it is still processed.
C2_MismatchSkipsOnlyThatFile ==
    MergeEnded =>
        LET ins == Inputs
        IN  \A n \in 2..Len(ins) :
                (fs[ins[1]].ok /\ fs[ins[n]].ok /\ Mismatch(ins[1], ins[n]))
                => /\ ~HasCellOf(dataframe, ins[n])
                   /\ Printed("EE", "Error while reading", ins[n])
                   /\ ~Printed("", "Appending data from file", basename(ins[n]))
                   /\ \A m \in (n + 1)..Len(ins) :
                          \/ Printed("EE", "Error while reading", ins[m])
                          \/ Printed("", "Appending data from file", basename(ins[m]))

C2_Witness ==
    /\ MergeEnded
    /\ Cardinality(InputSet) = 3
    /\ \A p \in InputSet : fs[p].ok
    /\ HeaderRow(Inputs[1]) = <<"id", "name">>
    /\ HeaderRow(Inputs[2]) = <<"name", "id">>
    /\ Len(DataRows(Inputs[2])) = 2
    /\ HeaderRow(Inputs[3]) = <<"id", "name", "email">>
    /\ HasCellOf(dataframe, Inputs[3])

\* C3: (the claim) a file whose read fails is merely left out: the merged
\* frame is the one the run gives over the directory without that file.
C3_ReadFailureExcludesOnlyThatFile ==
    MergeEnded =>
        \A p \in DOMAIN fs :
            (IsInput(p) /\ ~fs[p].ok)
            => dataframe = merge_excel_data_in_path(Without(fs, p), DataDir)

SomeFileGaveRows == \E p \in InputSet : HasCellOf(dataframe, p)

\* Some eligible file was read and appended to the frames.
SomeFileAppended ==
    \E p \in InputSet : Printed("", "Appending data from file", basename(p))

NothingWritten == WrittenXlsx = {} /\ WrittenCsv = {}

\* Both outputs of the run exist, under the same timestamp, holding the frame.
BothWritten ==
    /\ WrittenXlsx = {join(OutDir, "merged_excel_data_" \o strftime(now) \o ".xlsx")}
    /\ WrittenCsv = {join(OutDir, "merged_excel_data_" \o strftime(now) \o ".csv")}
    /\ \A p \in WrittenXlsx \cup WrittenCsv :
           fs[p].sheets[1].rows = <<dataframe.columns>> \o dataframe.data

\* C5 as claimed: the two outputs are written if and only if some eligible
\* file contributed rows; otherwise none is written, the 'No Excel files'
\* line is printed and the exit code is 0.
C5_WritesIffRowsContributed ==
    MergeEnded =>
        IF SomeFileGaveRows
        THEN BothWritten /\ exit_code = 0
        ELSE /\ NothingWritten
             /\ Printed("--", "No Excel files were found or successfully read.", "")
             /\ exit_code = 0

\* C5 as amended: the two outputs are written if and only if some eligible
\* file was read and appended, whether or not it has data rows.
C5_WritesIffFileAppended ==
    MergeEnded =>
        IF SomeFileAppended
        THEN BothWritten /\ exit_code = 0
        ELSE /\ NothingWritten
             /\ Printed("--", "No Excel files were found or successfully read.", "")
             /\ exit_code = 0

C5_Witness ==
    /\ MergeEnded
    /\ SomeFileAppended
    /\ ~SomeFileGaveRows
    /\ BothWritten

\* The file at position n of the sorted files ins is accepted: readable, and
\* its first K column names are the canonical ones.
Accepted(ins, n) ==
    /\ fs[ins[n]].ok
    /\ n > 1 => ~Mismatch(ins[1], ins[n])

RECURSIVE RefRows(_, _)
\* The rows of the accepted files from position n on, cut to the K canonical
\* columns (the first file's rows are whole).
RefRows(ins, n) ==
    IF n > Len(ins) THEN <<>>
    ELSE (IF Accepted(ins, n)
          THEN LET K == Len(HeaderRow(ins[1]))
                   rows == DataRows(ins[n])
               IN  [r \in 1..Len(rows) |-> SubSeq(rows[r], 1, K)]
          ELSE <<>>)
         \o RefRows(ins, n + 1)

\* C9: a merged frame is returned when the first file in sorted order is
\* readable, and only then; it is the reference concatenation: the canonical
\* columns, and the blocks of the accepted files in sorted file order, each in
\* its own row order and cut to the canonical columns.
C9_ReferenceConcatenation ==
    MergeEnded =>
        LET ins == Inputs
        IN  /\ ~dataframe.isNone <=> (ins # <<>> /\ fs[ins[1]].ok)
            /\ ~dataframe.isNone
               => /\ dataframe.columns = read_excel(fs, ins[1]).columns
                  /\ dataframe.data = RefRows(ins, 1)
                  /\ \A r \in 1..Len(dataframe.data) :
                         Len(dataframe.data[r]) = Len(HeaderRow(ins[1]))

C9_Witness ==
    /\ MergeEnded
    /\ Cardinality(InputSet) = 3
    /\ fs[Inputs[1]].ok /\ HeaderRow(Inputs[1]) = <<"id", "name">>
    /\ fs[Inputs[2]].ok /\ HeaderRow(Inputs[2]) = <<"id", "name", "email">>
    /\ Len(DataRows(Inputs[2])) = 2
    /\ fs[Inputs[3]].ok /\ HeaderRow(Inputs[3]) = <<"id", "name">>
    /\ Len(dataframe.data) = Len(DataRows(Inputs[1])) + 2 + Len(DataRows(Inputs[3]))
    /\ Len(DataRows(Inputs[3])) = 1

\* C10: (the claim) a run given the script's own directory ends with exit
\* code 1 and without having created the output directory there.
C10_ValidationBeforeEffects ==
    (pc = "exit" /\ Len(argv) = 2 /\ argv[2] = this_file_dir)
    => /\ exit_code = 1
       /\ ~Exists(fs, join(this_file_dir, "merged_excel_files"))

\* C6: in every run over the directory the files scanned are exactly its
\* immediate children named *.xlsx or *.xls and not merged_*, none of them
\* written by a run, and the frame returned is the first run's.
C6_RescanIdempotent ==
    (files_to_merge_dir = DataDir /\ pc \in {"loop", "to_excel", "to_csv", "exit"}
        /\ stdout # <<>> /\ stdout[1].msg = "Looking for Excel files")
    => /\ Range(excel_files_sorted) = InputSet
       /\ Range(excel_files_sorted) \cap produced = {}
       /\ \A n \in 1..Len(excel_files_sorted) :
              ~startswith(basename(excel_files_sorted[n]), "merged_")
       /\ pc # "loop" => dataframe = first_frame.frame

C6_Witness ==
    /\ MergeEnded
    /\ runs = 2
    /\ Cardinality(produced) = 4
    /\ Exists(fs, "/d/merged_old.xlsx")
    /\ Len(excel_files_sorted) = 3
    /\ Len(dataframe.data) >= 3

\* The split run went through every sheet and ended.
SplitCompleted ==
    /\ pc = "split_exit"
    /\ exit_code = 0
    /\ wb # <<>>

\* C7: a split that completes leaves exactly one file <sheet_name>.xlsx per
\* sheet in the output folder; each holds one sheet, titled like the source
\* sheet and with the rows of that sheet, in their order.
C7_OneFilePerSheet ==
    SplitCompleted =>
        /\ wb = fs[BookPath].sheets
        /\ Cardinality(FilesOf(fs, folder_name)) = Len(wb)
        /\ FilesOf(fs, folder_name) = {wb[k].title \o ".xlsx" : k \in 1..Len(wb)}
        /\ \A k \in 1..Len(wb) :
               LET out == fs[join(folder_name, wb[k].title \o ".xlsx")]
               IN  /\ out.ok
                   /\ Len(out.sheets) = 1
                   /\ out.sheets[1].title = wb[k].title
                   /\ out.sheets[1].rows = wb[k].rows

C7_Witness ==
    /\ SplitCompleted
    /\ Len(wb) = 2
    /\ Len(wb[1].rows) = 3
    /\ Len(wb[2].rows) = 2
    /\ wb[1].rows # wb[2].rows

\* The merge run over the folder of a completed split has ended.
RoundTripEnded ==
    /\ pc = "exit"
    /\ wb # <<>>
    /\ sheet_index = Len(wb)
    /\ files_to_merge_dir = folder_name
    /\ stdout # <<>>
    /\ stdout[1].msg = "Looking for Excel files"

\* Every sheet has the same header row, of at least one column.
SameHeaderRows ==
    \A k \in 1..Len(wb) :
        /\ wb[k].rows # <<>>
        /\ Head(wb[k].rows) = Head(wb[1].rows)

RECURSIVE BlocksOf(_)
\* The data rows of the sheets whose files are ps, in that order.
BlocksOf(ps) ==
    IF ps = <<>> THEN <<>>
    ELSE LET k == CHOOSE n \in 1..Len(wb) : join(folder_name, wb[n].title \o ".xlsx") = Head(ps)
         IN  Tail(wb[k].rows) \o BlocksOf(Tail(ps))

\* The frame of the workbook's rows: the header row as columns, the sheets'
\* data rows as blocks in the sorted order of the sheets' file names.
RoundTripFrame ==
    Frame(Head(wb[1].rows),
          BlocksOf(SortedOf({join(folder_name, wb[k].title \o ".xlsx") : k \in 1..Len(wb)})))

\* C8 as claimed: for a workbook whose sheets have the same header row, split
\* and then merge gives the workbook's rows, block by block in sorted file order.
C8_RoundTrip ==
    (RoundTripEnded /\ SameHeaderRows) => dataframe = RoundTripFrame

\* C8 as amended: the same, for a workbook none of whose sheet names starts
\* with merged_.
C8_RoundTripNoReservedName ==
    (/\ RoundTripEnded
     /\ SameHeaderRows
     /\ \A k \in 1..Len(wb) : ~startswith(wb[k].title, "merged_"))
    => dataframe = RoundTripFrame

C8_Witness ==
    /\ RoundTripEnded
    /\ SameHeaderRows
    /\ Len(wb) = 2
    /\ wb[1].title = "Jan"
    /\ wb[2].title = "Feb"
    /\ Len(wb[1].rows) = 3
    /\ Len(wb[2].rows) = 2
    /\ Len(dataframe.data) = 3
    /\ dataframe.data[1] = Tail(wb[2].rows)[1]

=============================================================================
